---- MODULE Spec2Model ----
(***************************************************************************)
(* A model of demcmc/emission.py: the Gaussian and the discrete            *)
(* contribution functions, their binning onto a temperature grid, and the  *)
(* predicted intensity of an emission line.                                *)
(*                                                                         *)
(* Numbers.  Temperatures, tabulated values, DEM values are integers.      *)
(* A binned value is a real number of the form                             *)
(*        rat + SUM_j coef_j * exp(-q_j)       (rat, coef_j, q_j rational) *)
(* kept as a record [nan, rat, exps]; exp(-q) for distinct rational q > 0  *)
(* are linearly independent over the rationals, so two such records are    *)
(* equal exactly when the numbers are.  nan marks numpy's not-a-number.    *)
(* np.exp is IEEE double: exp(-q) is exactly 0.0 once q passes the         *)
(* underflow threshold.                                                    *)
(***************************************************************************)
EXTENDS Integers, Sequences, FiniteSets, TLC

\* args: the constructor call under way; pc: "new" before it ran, then "ready"
\* (the instance is in self) or "failed" (it raised); last: the latest method
\* call on the instance; again: that call repeated the one before it.
VARIABLES pc, args, self, last, again

vars == <<pc, args, self, last, again>>

\* ------------------------------------------------------------------ bounds
\* Temperatures (bin edges, sample points, Gaussian centers) lie in 0..MaxT.
MaxT == 3
\* The longest tabulated contribution function (len(temps)).
MaxLen == 3

\* The tabulated contribution values a sample may take.
ValueSet == {1, 3}
\* The DEM value a bin may take.
DemSet == {1, 2}

\* ------------------------------------------------------------- rationals
Abs(x) == IF x < 0 THEN -x ELSE x

RECURSIVE GCD(_, _)
GCD(a, b) == IF b = 0 THEN a ELSE GCD(b, a % b)

\* The rational n/d (d # 0) in lowest terms with a positive denominator.
Rat(n, d) ==
    LET g == GCD(Abs(n), Abs(d))
        s == IF d < 0 THEN -1 ELSE 1
    IN  <<(s * n) \div g, (s * d) \div g>>

RInt(n) == <<n, 1>>
RNeg(a) == <<-a[1], a[2]>>
\* Sums go over the least common denominator, which keeps the numbers small.
RAdd(a, b) ==
    LET g == GCD(a[2], b[2])
    IN  Rat(a[1] * (b[2] \div g) + b[1] * (a[2] \div g), (a[2] \div g) * b[2])
RSub(a, b) == RAdd(a, RNeg(b))
RMul(a, b) == Rat(a[1] * b[1], a[2] * b[2])
RDiv(a, b) == Rat(a[1] * b[2], a[2] * b[1])
RLess(a, b) == a[1] * b[2] < b[1] * a[2]

\* --------------------------------------------------------------- numbers
NaN == [nan |-> TRUE, rat |-> RInt(0), exps |-> {}]
Num(r) == [nan |-> FALSE, rat |-> r, exps |-> {}]

\* coef * exp(-q), q > 0 below the underflow threshold.
ExpTerm(coef, q) == [nan |-> FALSE, rat |-> RInt(0), exps |-> {[q |-> q, coef |-> coef]}]

CoefAt(x, q) ==
    IF \E t \in x.exps : t.q = q
    THEN (CHOOSE t \in x.exps : t.q = q).coef
    ELSE RInt(0)

NAdd(x, y) ==
    IF x.nan \/ y.nan THEN NaN
    ELSE LET qs == {t.q : t \in x.exps \cup y.exps}
             sum(q) == RAdd(CoefAt(x, q), CoefAt(y, q))
         IN  [nan |-> FALSE,
              rat |-> RAdd(x.rat, y.rat),
              exps |-> {[q |-> q, coef |-> sum(q)] : q \in {p \in qs : sum(p) # RInt(0)}}]

\* x times the rational r.
NScale(x, r) ==
    IF x.nan THEN NaN
    ELSE IF r = RInt(0) THEN Num(RInt(0))
    ELSE [nan |-> FALSE,
          rat |-> RMul(x.rat, r),
          exps |-> {[q |-> t.q, coef |-> RMul(t.coef, r)] : t \in x.exps}]

\* ----------------------------------------------------------------- units
\* A physical unit is its exponents of cm and K.
Unit(c, k) == [cm |-> c, K |-> k]
Dimensionless == Unit(0, 0)
Kelvin == Unit(0, 1)
\* u.cm**5 / u.K, the unit both variants attach to their binned values.
CFUnit == Unit(5, -1)
UnitMul(a, b) == Unit(a.cm + b.cm, a.K + b.K)

\* Kelvin per megakelvin: to_value(u.MK) of a temperature given in kelvin.
MK == 1000000
ToMK(t) == RMul(t, <<1, MK>>)

\* --------------------------------------------------------------- TempBins
\* The bin grid of demcmc.dem: N+1 strictly increasing edges, in kelvin.
RECURSIVE IncreasingSeqs(_, _)
IncreasingSeqs(lo, n) ==
    IF n = 0 THEN {<<>>}
    ELSE UNION {{<<t>> \o s : s \in IncreasingSeqs(t + 1, n - 1)} : t \in lo..MaxT}

BinCenters(edges) == [i \in 1..(Len(edges) - 1) |-> Rat(edges[i] + edges[i + 1], 2)]
BinWidths(edges) == [i \in 1..(Len(edges) - 1) |-> edges[i + 1] - edges[i]]

TempBins(edges) ==
    [edges |-> edges,
     bin_centers |-> BinCenters(edges),
     bin_widths |-> BinWidths(edges),
     _bin_centers_MK |-> [i \in 1..(Len(edges) - 1) |-> ToMK(BinCenters(edges)[i])]]

NBins(tb) == Len(tb.edges) - 1

Grids == {TempBins(e) : e \in UNION {IncreasingSeqs(0, n) : n \in 2..(MaxT + 1)}}

\* BinnedDEM of demcmc.dem: a grid, one DEM value per bin, and their unit.
DemUnits == {Unit(-5, 0), Unit(-5, -1)}
Dems ==
    UNION {{[temp_bins |-> tb, values |-> v, unit |-> u] :
                v \in [1..NBins(tb) -> DemSet], u \in DemUnits} : tb \in Grids}

\* ------------------------------------------------------- call outcomes
\* A call returns a value (always a record) or raises.
None == [kind |-> "none"]
Ok(v) == [exc |-> "none", value |-> v]
ValueError(msg, ts) == [exc |-> "ValueError", msg |-> msg, missing_ts |-> ts]
UnitConversionError == [exc |-> "UnitConversionError", msg |-> "not dimensionless"]
Raised(r) == r.exc # "none"

\* A unit-bearing array (astropy Quantity) as binned returns it.
Quantity(vals, unit) == [values |-> vals, unit |-> unit]

\* ------------------------------------------------------ ContFuncGaussian
\* The scale 1e6 of the Gaussian profile.
K == 1000000
\* np.exp(-q) is 0.0 in IEEE double for q above 1075 ln 2 = 745.133...,
\* here in thousandths.
ExpUnderflowMilli == 745133

GaussianInit(center, width) ==
    [kind |-> "gauss", center |-> center, width |-> width,
     _width_MK |-> ToMK(width), _center_MK |-> ToMK(center)]

\* np.exp(x) for a rational x <= 0.
Exp(x) ==
    IF x = RInt(0) THEN Num(RInt(1))
    ELSE IF 1000 * (-x[1]) > ExpUnderflowMilli * x[2] THEN Num(RInt(0))
    ELSE ExpTerm(RInt(1), RNeg(x))

\* Mutant: the profile evaluated at the lower edge of the bin.
GaussianSampleLowerEdge(temp_bins, i) == ToMK(RInt(temp_bins.edges[i]))

\* The point of bin i the profile is evaluated at.
GaussianSamplePoint(temp_bins, i) == temp_bins._bin_centers_MK[i]

GaussianValue(me, temp_bins, i) ==
    LET z == RDiv(RSub(me._center_MK, GaussianSamplePoint(temp_bins, i)), me._width_MK)
    IN  NScale(Exp(RNeg(RMul(z, z))), RInt(K))

\* Mutant: one value per edge instead of one per bin.
GaussianBinnedPerEdge(me, temp_bins) ==
    Ok(Quantity([i \in 1..Len(temp_bins.edges) |->
                    GaussianValue(me, temp_bins, IF i > Len(temp_bins.edges) - 1 THEN i - 1 ELSE i)],
                CFUnit))

GaussianBinned(me, temp_bins) ==
    Ok(Quantity([i \in 1..Len(temp_bins._bin_centers_MK) |-> GaussianValue(me, temp_bins, i)],
                CFUnit))

\* ------------------------------------------------------ ContFuncDiscrete
\* An array argument: its number of dimensions and its elements, flattened.
Array(ndim, data) == [ndim |-> ndim, data |-> data]
Size(a) == Len(a.data)

\* Mutant: the sizes are not compared.
DiscreteInitNoSizeCheck(temps, values) ==
    IF temps.ndim # 1
    THEN [ret |-> ValueError("temps must be a 1D quantity", <<>>), obj |-> None]
    ELSE IF values.ndim # 1
    THEN [ret |-> ValueError("values must be a 1D quantity", <<>>), obj |-> None]
    ELSE [ret |-> Ok(None), obj |-> [kind |-> "disc", temps |-> temps, values |-> values]]

\* __init__: the outcome and the object it leaves.
DiscreteInit(temps, values) ==
    IF temps.ndim # 1
    THEN [ret |-> ValueError("temps must be a 1D quantity", <<>>), obj |-> None]
    ELSE IF values.ndim # 1
    THEN [ret |-> ValueError("values must be a 1D quantity", <<>>), obj |-> None]
    ELSE IF Size(temps) # Size(values)
    THEN [ret |-> ValueError("Temperatures and values must be the same size", <<>>),
          obj |-> None]
    ELSE [ret |-> Ok(None), obj |-> [kind |-> "disc", temps |-> temps, values |-> values]]

\* Mutant: an edge matches a sample point within a tolerance of one kelvin.
ContainsWithinTolerance(temps, t) ==
    \E j \in 1..Len(temps.data) : Abs(temps.data[j] - t) <= 1

\* t in self.temps
Contains(temps, t) == \E j \in 1..Len(temps.data) : temps.data[j] = t

\* Mutant: the loop ends at the first missing edge.
RECURSIVE MissingFromFirstOnly(_, _, _, _)
MissingFromFirstOnly(me, edges, i, missing_ts) ==
    IF i > Len(edges) \/ Len(missing_ts) # 0 THEN missing_ts
    ELSE MissingFromFirstOnly(me, edges, i + 1,
                              IF \A j \in 1..Len(me.temps.data) : me.temps.data[j] # edges[i]
                              THEN Append(missing_ts, edges[i]) ELSE missing_ts)

\* The loop of _check_bin_edges from edge i on, missing_ts so far.
RECURSIVE MissingFrom(_, _, _, _)
MissingFrom(me, edges, i, missing_ts) ==
    IF i > Len(edges) THEN missing_ts
    ELSE MissingFrom(me, edges, i + 1,
                     IF ~Contains(me.temps, edges[i])
                     THEN Append(missing_ts, edges[i]) ELSE missing_ts)

CheckBinEdges(me, temp_bins) ==
    LET missing_ts == MissingFrom(me, temp_bins.edges, 1, <<>>)
    IN  IF Len(missing_ts) # 0
        THEN ValueError("The following bin edges in temp_bins are missing", missing_ts)
        ELSE Ok(None)

\* Mutant: include_lowest is ignored, the lowest bin is open below.
CutOpenLowest(x, bins, include_lowest) ==
    LET ss == Cardinality({j \in 1..Len(bins) : bins[j] < x})
    IN  IF ss = 0 \/ ss = Len(bins) THEN 0 ELSE ss

\* pd.cut(x, bins, include_lowest): the 1-based bin of x, 0 for none.  pandas
\* takes searchsorted(bins, x, side="left"), moves x = bins[0] into the first
\* bin, and leaves 0 and len(bins) unbinned.
Cut(x, bins, include_lowest) ==
    LET ss == Cardinality({j \in 1..Len(bins) : bins[j] < x})
        id == IF include_lowest /\ x = bins[1] THEN 1 ELSE ss
    IN  IF id = 0 \/ id = Len(bins) THEN 0 ELSE id

RECURSIVE SumOver(_, _)
SumOver(f, S) ==
    IF S = {} THEN 0
    ELSE LET j == CHOOSE k \in S : TRUE IN f[j] + SumOver(f, S \ {j})

\* df.groupby("Groups").mean(): the mean of each bin's rows, NaN for a bin
\* with none.
GroupMean(me, edges, k) ==
    LET rows == {j \in 1..Len(me.temps.data) : Cut(me.temps.data[j], edges, TRUE) = k}
    IN  IF rows = {} THEN NaN
        ELSE Num(Rat(SumOver(me.values.data, rows), Cardinality(rows)))

\* Mutant: the bin edges are not checked.
DiscreteBinnedUnchecked(me, temp_bins) ==
    Ok(Quantity([k \in 1..(Len(temp_bins.edges) - 1) |->
                    GroupMean(me, temp_bins.edges, k)], CFUnit))

DiscreteBinned(me, temp_bins) ==
    LET chk == CheckBinEdges(me, temp_bins)
    IN  IF Raised(chk) THEN chk
        ELSE Ok(Quantity([k \in 1..(Len(temp_bins.edges) - 1) |->
                              GroupMean(me, temp_bins.edges, k)], CFUnit))

\* ---------------------------------------------------------- EmissionLine
LineInit(cont_func, intensity_obs, sigma_intensity_obs) ==
    [kind |-> "line", cont_func |-> cont_func,
     intensity_obs |-> intensity_obs, sigma_intensity_obs |-> sigma_intensity_obs]

\* self.cont_func.binned(temp_bins), by the variant.
Binned(cf, temp_bins) ==
    IF cf.kind = "gauss" THEN GaussianBinned(cf, temp_bins)
    ELSE DiscreteBinned(cf, temp_bins)

\* Mutant: the bin widths are left out of the product.
ProductWithoutWidths(cont_func, dem, i) ==
    NScale(cont_func.values[i], RInt(dem.values[i]))

\* cont_func * dem.values * dem.temp_bins.bin_widths, element i.
Product(cont_func, dem, i) ==
    NScale(cont_func.values[i], RInt(dem.values[i] * dem.temp_bins.bin_widths[i]))

\* np.sum over the first n elements.
RECURSIVE NpSum(_, _, _)
NpSum(cont_func, dem, n) ==
    IF n = 0 THEN Num(RInt(0))
    ELSE NAdd(NpSum(cont_func, dem, n - 1), Product(cont_func, dem, n))

\* Mutant: the magnitude is taken without converting the unit (ret.value).
ToValueUnchecked(value, unit) == Ok(value)

\* ret.to_value(u.dimensionless_unscaled)
ToDimensionless(value, unit) ==
    IF unit = Dimensionless THEN Ok(value) ELSE UnitConversionError

IPred(me, dem) ==
    LET b == Binned(me.cont_func, dem.temp_bins)
    IN  IF Raised(b) THEN b
        ELSE LET cont_func == b.value
                 unit == UnitMul(UnitMul(cont_func.unit, dem.unit), Kelvin)
             IN  ToDimensionless(NpSum(cont_func, dem, Len(cont_func.values)), unit)

\* ------------------------------------------------------------ the calls
\* A method call: the instance and the argument as the call leaves them, and
\* what it returned or raised.
GaussianBinnedCall(me, temp_bins) ==
    [self |-> me, arg |-> temp_bins, ret |-> GaussianBinned(me, temp_bins)]

\* Mutant: binning drops the samples outside the grid from the instance itself.
DiscreteBinnedCallInPlace(me, temp_bins) ==
    LET keep == {j \in 1..Len(me.temps.data) : Cut(me.temps.data[j], temp_bins.edges, TRUE) # 0}
        Pick(x) == [j \in 1..Cardinality(keep) |->
                       x[CHOOSE i \in keep : Cardinality({h \in keep : h < i}) = j - 1]]
        ret == DiscreteBinned(me, temp_bins)
    IN  [self |-> IF Raised(ret) THEN me
                  ELSE [me EXCEPT !.temps.data = Pick(me.temps.data),
                                  !.values.data = Pick(me.values.data)],
         arg |-> temp_bins, ret |-> ret]

DiscreteBinnedCall(me, temp_bins) ==
    [self |-> me, arg |-> temp_bins, ret |-> DiscreteBinned(me, temp_bins)]

IPredCall(me, dem) ==
    [self |-> me, arg |-> dem, ret |-> IPred(me, dem)]

\* ------------------------------------------------------------ the inputs
\* Gaussian widths, in kelvin: narrow (a twentieth of a grid step) to wide.
Widths == {<<1, 20>>, <<1, 1>>, <<2, 1>>}
GaussArgs == {[kind |-> "gauss", center |-> RInt(c), width |-> w] : c \in 0..MaxT, w \in Widths}

SeqsUpTo(S, n) == UNION {[1..m -> S] : m \in 0..n}
NDims == 0..2
\* A scalar holds one element and a 2-D array at least one; a 1-D array any number.
Arrays(S) ==
    {Array(d, x) : d \in NDims, x \in SeqsUpTo(S, MaxLen)} \
        {a \in {Array(d, x) : d \in NDims, x \in SeqsUpTo(S, MaxLen)} :
            \/ a.ndim = 0 /\ Len(a.data) # 1
            \/ a.ndim = 2 /\ Len(a.data) = 0}
DiscArgs ==
    {[kind |-> "disc", temps |-> t, values |-> v] : t \in Arrays(0..MaxT), v \in Arrays(ValueSet)}

\* The contribution function of a line: a Gaussian, or a table over strictly
\* increasing temperatures.
Tables ==
    UNION {{[kind |-> "disc", temps |-> Array(1, t), values |-> Array(1, v)] :
                v \in [1..Len(t) -> ValueSet]} :
            t \in UNION {IncreasingSeqs(0, n) : n \in 0..MaxLen}}
\* intensity_obs and sigma_intensity_obs: absent, or given.
Observed == {[intensity_obs |-> <<>>, sigma_intensity_obs |-> <<>>],
             [intensity_obs |-> <<5>>, sigma_intensity_obs |-> <<1>>]}
LineArgs ==
    {[kind |-> "line", cont_func |-> cf, obs |-> o] : cf \in GaussArgs \cup Tables, o \in Observed}

NoCall == [op |-> "none"]
Call(op, input, r) == [op |-> op, input |-> input, after |-> r.arg, ret |-> r.ret]

\* The argument of the next call: any, and on a repeated call the same again.
Inputs(S) == IF last.op = "none" THEN S ELSE {last.input}

\* ------------------------------------------------------------ the machine
Init ==
    /\ pc = "new"
    /\ args \in GaussArgs \cup DiscArgs \cup LineArgs
    /\ self = None
    /\ last = NoCall
    /\ again = FALSE

NewGaussian ==
    /\ pc = "new" /\ args.kind = "gauss"
    /\ self' = GaussianInit(args.center, args.width)
    /\ pc' = "ready"
    /\ UNCHANGED <<args, last, again>>

NewDiscrete ==
    /\ pc = "new" /\ args.kind = "disc"
    /\ LET r == DiscreteInit(args.temps, args.values)
       IN  /\ self' = r.obj
           /\ pc' = IF Raised(r.ret) THEN "failed" ELSE "ready"
           /\ last' = IF Raised(r.ret) THEN [op |-> "__init__", ret |-> r.ret] ELSE last
    /\ UNCHANGED <<args, again>>

NewLine ==
    /\ pc = "new" /\ args.kind = "line"
    /\ LET cf == IF args.cont_func.kind = "gauss"
                 THEN GaussianInit(args.cont_func.center, args.cont_func.width)
                 ELSE DiscreteInit(args.cont_func.temps, args.cont_func.values).obj
       IN  self' = LineInit(cf, args.obs.intensity_obs, args.obs.sigma_intensity_obs)
    /\ pc' = "ready"
    /\ UNCHANGED <<args, last, again>>

CallGaussianBinned ==
    /\ pc = "ready" /\ self.kind = "gauss"
    /\ \E temp_bins \in Inputs(Grids) :
         LET r == GaussianBinnedCall(self, temp_bins)
         IN  /\ self' = r.self
             /\ last' = Call("binned", temp_bins, r)
    /\ again' = (last.op # "none")
    /\ UNCHANGED <<pc, args>>

CallDiscreteBinned ==
    /\ pc = "ready" /\ self.kind = "disc"
    /\ \E temp_bins \in Inputs(Grids) :
         LET r == DiscreteBinnedCall(self, temp_bins)
         IN  /\ self' = r.self
             /\ last' = Call("binned", temp_bins, r)
    /\ again' = (last.op # "none")
    /\ UNCHANGED <<pc, args>>

CallIPred ==
    /\ pc = "ready" /\ self.kind = "line"
    /\ \E dem \in Inputs(Dems) :
         LET r == IPredCall(self, dem)
         IN  /\ self' = r.self
             /\ last' = Call("I_pred", dem, r)
    /\ again' = (last.op # "none")
    /\ UNCHANGED <<pc, args>>

Next ==
    \/ NewGaussian
    \/ NewDiscrete
    \/ NewLine
    \/ CallGaussianBinned
    \/ CallDiscreteBinned
    \/ CallIPred

Spec == Init /\ [][Next]_vars

\* ============================================================== the claims
\* Shorthands for the state after a call.
BinnedOnDiscrete == pc = "ready" /\ self.kind = "disc" /\ last.op = "binned"
BinnedOnGaussian == pc = "ready" /\ self.kind = "gauss" /\ last.op = "binned"
IPredOnLine == pc = "ready" /\ self.kind = "line" /\ last.op = "I_pred"

\* The bin interval k of the edges: (e_k, e_{k+1}], the lowest closed on both ends.
InBin(t, edges, k) ==
    /\ IF k = 1 THEN edges[1] <= t ELSE edges[k] < t
    /\ t <= edges[k + 1]

Samples(temps, edges, k) == {j \in 1..Len(temps) : InBin(temps[j], edges, k)}
EdgesPresent(temps, edges) ==
    \A i \in 1..Len(edges) : \E j \in 1..Len(temps) : temps[j] = edges[i]
MeanOf(values, rows) ==
    IF rows = {} THEN NaN ELSE Num(Rat(SumOver(values, rows), Cardinality(rows)))

\* ----------------------------------------------------------------- C1
\* C1: when temps holds every edge of the grid, binned returns for bin k the
\* mean of exactly the values whose sample lies in (e_k, e_{k+1}] (the lowest
\* bin [e_0, e_1]); a sample outside [e_0, e_N] is in no bin and a sample
\* inside is in exactly one.
C1_BinnedIsMeanPerInterval ==
    BinnedOnDiscrete =>
        LET temps == self.temps.data
            values == self.values.data
            edges == last.input.edges
            N == Len(edges) - 1
        IN  EdgesPresent(temps, edges) =>
              /\ ~Raised(last.ret)
              /\ \A k \in 1..N :
                   last.ret.value.values[k] = MeanOf(values, Samples(temps, edges, k))
              /\ \A j \in 1..Len(temps) :
                   Cardinality({k \in 1..N : InBin(temps[j], edges, k)}) =
                       IF edges[1] <= temps[j] /\ temps[j] <= edges[N + 1] THEN 1 ELSE 0

\* A bin holding the sample at the lowest edge and another one of a different
\* value, and a sample outside the grid.
C1_Witness ==
    /\ BinnedOnDiscrete /\ ~Raised(last.ret)
    /\ LET temps == self.temps.data
           values == self.values.data
           edges == last.input.edges
       IN  /\ \E i, j \in Samples(temps, edges, 1) :
                 temps[i] = edges[1] /\ temps[j] # edges[1] /\ values[i] # values[j]
           /\ \E j \in 1..Len(temps) : temps[j] > edges[Len(edges)]

\* ----------------------------------------------------------------- C3
MissingEdges(temps, edges) ==
    {edges[i] : i \in {n \in 1..Len(edges) : \A j \in 1..Len(temps) : temps[j] # edges[n]}}
Elements(s) == {s[i] : i \in 1..Len(s)}

\* C3: binned raises the validation error, and returns nothing, exactly when
\* some edge of the grid is not an element of temps; the error names every
\* missing edge and no edge that is present.
C3_MissingEdgesAllReported ==
    BinnedOnDiscrete =>
        LET miss == MissingEdges(self.temps.data, last.input.edges)
        IN  /\ (miss # {}) <=> Raised(last.ret)
            /\ Raised(last.ret) =>
                 /\ last.ret.exc = "ValueError"
                 /\ Elements(last.ret.missing_ts) = miss

\* Two edges are missing and one is present.
C3_Witness ==
    /\ BinnedOnDiscrete /\ Raised(last.ret)
    /\ Len(last.ret.missing_ts) >= 2
    /\ Len(last.ret.missing_ts) < Len(last.input.edges)

\* ----------------------------------------------------------------- C4
\* C4: ContFuncDiscrete(temps, values) raises, leaving no object, when temps
\* or values is not one-dimensional or their sizes differ; otherwise the
\* object holds temps and values as given.
C4_ConstructionValidated ==
    (args.kind = "disc" /\ pc # "new") =>
        LET bad == \/ args.temps.ndim # 1
                   \/ args.values.ndim # 1
                   \/ Len(args.temps.data) # Len(args.values.data)
        IN  /\ bad => /\ pc = "failed"
                      /\ self = None
                      /\ last.op = "__init__" /\ last.ret.exc = "ValueError"
            /\ ~bad => /\ pc = "ready"
                       /\ self.kind = "disc"
                       /\ self.temps = args.temps
                       /\ self.values = args.values

\* One-dimensional arrays of sizes 2 and 3 were refused.
C4_Witness ==
    /\ args.kind = "disc" /\ pc = "failed"
    /\ args.temps.ndim = 1 /\ args.values.ndim = 1
    /\ Len(args.temps.data) = 2 /\ Len(args.values.data) = 3

\* ----------------------------------------------------------------- C6
EmptyBins(temps, edges) == {k \in 1..(Len(edges) - 1) : Samples(temps, edges, k) = {}}

\* C6 as stated: when some bin holds no sample point, binned does not
\* fail; that bin's entry is missing and the other bins get their means.
C6_EmptyBinGivesMissingValue ==
    BinnedOnDiscrete =>
        LET temps == self.temps.data
            edges == last.input.edges
        IN  EmptyBins(temps, edges) # {} =>
              /\ ~Raised(last.ret)
              /\ \A k \in 1..(Len(edges) - 1) :
                   last.ret.value.values[k] =
                       MeanOf(self.values.data, Samples(temps, edges, k))

\* C6 amended: when some bin holds no sample point, binned raises the
\* missing-edge error, which names the upper edge of every empty bin.
C6_EmptyBinRaisesMissingEdge ==
    BinnedOnDiscrete =>
        LET temps == self.temps.data
            edges == last.input.edges
        IN  \A k \in EmptyBins(temps, edges) :
              /\ Raised(last.ret)
              /\ last.ret.exc = "ValueError"
              /\ edges[k + 1] \in Elements(last.ret.missing_ts)

\* The lowest edge is a sample point and a higher bin is empty.
C6_Witness ==
    /\ BinnedOnDiscrete
    /\ LET temps == self.temps.data
           edges == last.input.edges
       IN  /\ Samples(temps, edges, 1) # {}
           /\ \E k \in EmptyBins(temps, edges) : k > 1

\* ----------------------------------------------------------------- C10
\* C10: a binned call that passes the missing-edge check returns no missing
\* value: every bin holds its own upper edge, a sample point; and I_pred of
\* a line over a discrete contribution function never sums a missing value.
C10_NoMissingValueAfterCheck ==
    /\ (BinnedOnDiscrete /\ ~Raised(last.ret)) =>
          LET temps == self.temps.data
              edges == last.input.edges
          IN  \A k \in 1..(Len(edges) - 1) :
                /\ \E j \in Samples(temps, edges, k) : temps[j] = edges[k + 1]
                /\ ~last.ret.value.values[k].nan
    /\ (IPredOnLine /\ self.cont_func.kind = "disc" /\ ~Raised(last.ret)) =>
          ~last.ret.value.nan

\* Two bins, each holding only its upper edge besides the lowest edge.
C10_Witness ==
    /\ BinnedOnDiscrete /\ ~Raised(last.ret)
    /\ Len(last.input.edges) = 3
    /\ Cardinality(Samples(self.temps.data, last.input.edges, 2)) = 1

\* ----------------------------------------------------------------- C2
\* The sum of binned_i * dem.values_i * (e_{i+1} - e_i) over the bins in S.
RECURSIVE TermSum(_, _, _)
TermSum(binned, dem, S) ==
    IF S = {} THEN Num(RInt(0))
    ELSE LET i == CHOOSE k \in S : \A h \in S : h <= k
             w == dem.temp_bins.edges[i + 1] - dem.temp_bins.edges[i]
         IN  NAdd(NScale(binned[i], RInt(dem.values[i] * w)), TermSum(binned, dem, S \ {i}))

Uniform(dem, binned) ==
    LET edges == dem.temp_bins.edges
    IN  \A i \in 1..(Len(edges) - 1) :
          /\ edges[i + 1] - edges[i] = edges[2] - edges[1]
          /\ dem.values[i] = dem.values[1]
          /\ binned[i] = binned[1]

\* C2: I_pred(dem) is the sum over the N bins of
\* binned_i * dem.values_i * bin_widths_i with binned taken on the DEM's own
\* grid; for uniform width w, DEM value d and binned value g it is N*g*d*w.
C2_IPredIsSumOfProducts ==
    (IPredOnLine /\ ~Raised(last.ret)) =>
        LET dem == last.input
            edges == dem.temp_bins.edges
            N == Len(edges) - 1
            binned == Binned(self.cont_func, dem.temp_bins).value.values
        IN  /\ last.ret.value = TermSum(binned, dem, 1..N)
            /\ Uniform(dem, binned) =>
                 last.ret.value =
                     NScale(binned[1], RInt(N * dem.values[1] * (edges[2] - edges[1])))

\* Uniform: two bins or more of one width, DEM value 2 and binned value 3 in
\* each.
C2_Witness ==
    /\ IPredOnLine /\ ~Raised(last.ret)
    /\ self.cont_func.kind = "disc"
    /\ LET dem == last.input
           binned == Binned(self.cont_func, dem.temp_bins).value.values
       IN  /\ Len(dem.temp_bins.edges) >= 3
           /\ Uniform(dem, binned)
           /\ dem.values[1] = 2
           /\ binned[1].rat = RInt(3)

C7_DimensionalCheck ==
    IPredOnLine =>
        LET dem == last.input
            binningFails == /\ self.cont_func.kind = "disc"
                            /\ ~EdgesPresent(self.cont_func.temps.data, dem.temp_bins.edges)
            dimensionless == 5 + dem.unit.cm = 0 /\ -1 + dem.unit.K + 1 = 0
        IN  /\ binningFails => last.ret.exc = "ValueError"
            /\ (~binningFails /\ ~dimensionless) => last.ret.exc = "UnitConversionError"
            /\ (~binningFails /\ dimensionless) =>
                 /\ last.ret.exc = "none"
                 /\ DOMAIN last.ret.value = {"nan", "rat", "exps"}

\* A DEM in cm^-5 K^-1 made the sum, binned without failure, dimensioned.
C7_Witness ==
    /\ IPredOnLine
    /\ last.ret.exc = "UnitConversionError"
    /\ self.cont_func.kind = "disc"

\* ----------------------------------------------------------------- C8
RAbs(a) == <<Abs(a[1]), a[2]>>
\* |center_i - c| and ((c - center_i) / w)^2, from the edges, in kelvin.
Distance(g, edges, i) == RAbs(RSub(g.center, Rat(edges[i] + edges[i + 1], 2)))
Exponent(g, edges, i) ==
    LET z == RDiv(Distance(g, edges, i), g.width) IN RMul(z, z)

\* a < b for values of the form K * exp(-q), 0 (underflow), K.
ValLess(a, b) ==
    IF a = Num(RInt(0)) THEN b # Num(RInt(0))
    ELSE IF a.exps = {} THEN FALSE
    ELSE \/ b = Num(RInt(K))
         \/ /\ b.exps # {}
            /\ RLess((CHOOSE t \in b.exps : TRUE).q, (CHOOSE t \in a.exps : TRUE).q)

\* C8 as stated: each bin gets K * exp(-((c - center_i) / w)^2); a bin
\* centred at c gets the maximum K, the value strictly decreases as
\* |center_i - c| grows, and equidistant bins get equal values.
C8_GaussianStrictlyDecreasing ==
    BinnedOnGaussian =>
        LET edges == last.input.edges
            v == last.ret.value.values
            B == 1..(Len(edges) - 1)
            q(i) == Exponent(self, edges, i)
        IN  /\ \A i \in B :
                 v[i] = IF q(i) = RInt(0) THEN Num(RInt(K)) ELSE ExpTerm(RInt(K), q(i))
            /\ \A i \in B : Distance(self, edges, i) = RInt(0) => v[i] = Num(RInt(K))
            /\ \A i, j \in B :
                 /\ RLess(Distance(self, edges, i), Distance(self, edges, j)) => ValLess(v[j], v[i])
                 /\ Distance(self, edges, i) = Distance(self, edges, j) => v[i] = v[j]

\* C8 amended: each bin gets K * exp(-q_i), q_i = ((c - center_i) / w)^2,
\* taken at the bin centre, which is exactly 0 once q_i is above the underflow
\* threshold of np.exp; a bin centred at c gets the maximum K, a farther bin
\* gets a smaller value unless both are 0, and equidistant bins get equal
\* values.
C8_GaussianDecreasingToZero ==
    BinnedOnGaussian =>
        LET edges == last.input.edges
            v == last.ret.value.values
            B == 1..(Len(edges) - 1)
            q(i) == Exponent(self, edges, i)
        IN  /\ \A i \in B :
                 v[i] = IF q(i) = RInt(0) THEN Num(RInt(K))
                        ELSE IF RLess(<<ExpUnderflowMilli, 1000>>, q(i)) THEN Num(RInt(0))
                        ELSE ExpTerm(RInt(K), q(i))
            /\ \A i \in B : Distance(self, edges, i) = RInt(0) =>
                 /\ v[i] = Num(RInt(K))
                 /\ \A j \in B : ~ValLess(v[i], v[j])
            /\ \A i, j \in B :
                 /\ RLess(Distance(self, edges, i), Distance(self, edges, j)) =>
                      \/ ValLess(v[j], v[i])
                      \/ v[i] = Num(RInt(0)) /\ v[j] = Num(RInt(0))
                 /\ Distance(self, edges, i) = Distance(self, edges, j) => v[i] = v[j]

\* Two bins at different distances from c both at zero, and a nearer bin
\* above zero.
C8_Witness ==
    /\ BinnedOnGaussian
    /\ LET edges == last.input.edges
           v == last.ret.value.values
           B == 1..(Len(edges) - 1)
       IN  \E i, j \in B :
             /\ RLess(Distance(self, edges, i), Distance(self, edges, j))
             /\ v[i] = Num(RInt(0)) /\ v[j] = Num(RInt(0))
             /\ \E h \in B : v[h].exps # {}

\* ----------------------------------------------------------------- C9
\* C9: a call of binned or I_pred leaves the instance and its argument as
\* they were, and a call repeated with the same argument returns (or raises)
\* the same again.
C9_CallsArePure ==
    [][pc = "ready" =>
         /\ self' = self
         /\ last'.after = last'.input
         /\ (last.op # "none" /\ last'.input = last.input) => last'.ret = last.ret]_vars

\* A binned call on a table with a sample outside the grid was repeated.
C9_Witness ==
    /\ BinnedOnDiscrete /\ again /\ ~Raised(last.ret)
    /\ \E j \in 1..Len(self.temps.data) :
         self.temps.data[j] > last.input.edges[Len(last.input.edges)]

====
